---- MODULE Spec2Model ----
(***************************************************************************)
(* TorchSACOptimizer (mlagents/trainers/sac/optimizer_torch.py): the four  *)
(* SAC losses, soft_update, _condense_q_streams and the update call.       *)
(*                                                                         *)
(* Numbers.  A float is an integer in -FMax..FMax (a fixed-point value),   *)
(* or one of PInf, NInf, NaN.  An exact result beyond FMax overflows to an *)
(* infinity, inf - inf and 0 * inf are NaN, and NaN propagates.  Division  *)
(* (a mean, 0.5 *, a product with tau or gamma) rounds down.  Tensors in a *)
(* batch and network outputs are finite; non-finite values arise only from *)
(* arithmetic on them.                                                     *)
(*                                                                         *)
(* Tensors.  A tensor over the batch is a sequence indexed by step; a      *)
(* dictionary keyed by reward stream is a sequence aligned with            *)
(* stream_names; log_probs[t] is a sequence over the action dimensions.    *)
(* The losses are modelled for continuous actions (discrete = False).      *)
(***************************************************************************)
EXTENDS Integers, Sequences, FiniteSets, TLC

\* ------------------------------------------------------------- bounds
\* Largest finite float of the model.
FMax == 1000
\* Number of update calls a behaviour makes.
MaxCalls == 2
\* Steps in a batch handed to a loss function on its own.
MaxLen == 2
\* Entries of a loss function's input that differ from the default batch.
MaxEdits == 2

\* ------------------------------------------------------------- floats
PInf == FMax + 1
NInf == 0 - PInf
NaN == FMax + 2

isinf(x) == x = PInf \/ x = NInf
isnan(x) == x = NaN
IsFinite(x) == x >= 0 - FMax /\ x <= FMax

\* The float nearest an exact result.
Overflow(x) == IF x > FMax THEN PInf ELSE IF x < 0 - FMax THEN NInf ELSE x

FNeg(a) == IF isnan(a) THEN NaN ELSE 0 - a

FAdd(a, b) ==
    IF isnan(a) \/ isnan(b) THEN NaN
    ELSE IF isinf(a) /\ isinf(b) THEN (IF a = b THEN a ELSE NaN)
    ELSE IF isinf(a) THEN a
    ELSE IF isinf(b) THEN b
    ELSE Overflow(a + b)

FSub(a, b) == FAdd(a, FNeg(b))

FMul(a, b) ==
    IF isnan(a) \/ isnan(b) THEN NaN
    ELSE IF isinf(a) \/ isinf(b)
         THEN (IF a = 0 \/ b = 0 THEN NaN
               ELSE IF (a > 0) = (b > 0) THEN PInf ELSE NInf)
    ELSE Overflow(a * b)

\* a / n for a count n > 0.
FDiv(a, n) == IF IsFinite(a) THEN a \div n ELSE a

FMin(a, b) == IF isnan(a) \/ isnan(b) THEN NaN ELSE IF a <= b THEN a ELSE b

FAbs(a) == IF isnan(a) THEN NaN ELSE IF a < 0 THEN 0 - a ELSE a

\* s[1] + ... + s[n]
RECURSIVE FSumTo(_, _)
FSumTo(s, n) == IF n = 0 THEN 0 ELSE FAdd(FSumTo(s, n - 1), s[n])

\* torch.sum of a tensor.
FSum(s) == FSumTo(s, Len(s))

\* torch.mean of a non-empty tensor.
FMean(s) == FDiv(FSum(s), Len(s))

\* torch.exp on the log entropy coefficient, which is held in units of ln 2.
Exp(k) == 2 ^ k

\* torch.nn.functional.mse_loss(a, b) with its default reduction, "mean":
\* one scalar, the mean over all steps of the squared difference.
mse_loss(a, b) ==
    FMean([t \in 1..Len(a) |-> LET diff == FSub(a[t], b[t]) IN FMul(diff, diff)])

\* ------------------------------------------------------ configuration
stream_names == <<"extrinsic", "curiosity">>
\* gamma is GammaNum / GammaDen.
GammaDen == 2
\* tau is TauNum / TauDen.
TauDen == 2
\* continuous_target_entropy_scale.
continuous_target_entropy_scale == 1

\* x * (num / den), one rounded product.
Scale(x, num, den) == FDiv(FMul(x, num), den)

\* -1 * continuous_target_entropy_scale * prod(act_size[0]), for d dimensions.
target_entropy(d) == (0 - 1) * continuous_target_entropy_scale * d

\* ------------------------------------------------------------- losses
\* q_backup with the first stream's gamma used for every stream.
q_backup_first_gamma(i, target_values, dones, rewards, gammas, use_dones_in_backup) ==
    [t \in 1..Len(dones) |->
        FAdd(rewards[i][t],
             Scale(target_values[i][t],
                   (1 - use_dones_in_backup[i] * dones[t]) * gammas[1],
                   GammaDen))]

\* The local q_backup of sac_q_loss for stream i: one entry per step.
q_backup(i, target_values, dones, rewards, gammas, use_dones_in_backup) ==
    [t \in 1..Len(dones) |->
        FAdd(rewards[i][t],
             Scale(target_values[i][t],
                   (1 - use_dones_in_backup[i] * dones[t]) * gammas[i],
                   GammaDen))]

\* 0.5 * torch.mean(loss_masks * mse_loss(backup, stream)): the mask
\* multiplies the scalar mse_loss returns.
MaskedHalfMse(loss_masks, backup, stream) ==
    LET mse == mse_loss(backup, stream)
    IN  FDiv(FMean([t \in 1..Len(loss_masks) |-> FMul(loss_masks[t], mse)]), 2)

\* <<q1_loss, q2_loss>>
sac_q_loss(q1_out, q2_out, target_values, dones, rewards, loss_masks, gammas, use_dones_in_backup) ==
    LET S == Len(q1_out)
        bk(i) == q_backup(i, target_values, dones, rewards, gammas,
                          use_dones_in_backup)
        q1_losses == [i \in 1..S |-> MaskedHalfMse(loss_masks, bk(i), q1_out[i])]
        q2_losses == [i \in 1..S |-> MaskedHalfMse(loss_masks, bk(i), q2_out[i])]
    IN  <<FMean(q1_losses), FMean(q2_losses)>>

\* torch.sum(_ent_coef * log_probs, dim=1) at one step.
EntropyTerm(log_ent_coef, lp) ==
    FSum([d \in 1..Len(lp) |-> FMul(Exp(log_ent_coef), lp[d])])

\* The value sac_value_loss computes at line 271, before its finiteness test.
sac_value_loss(log_probs, values, q1p_out, q2p_out, loss_masks, log_ent_coef) ==
    LET N == Len(loss_masks)
        min_policy_qs(i) == [t \in 1..N |-> FMin(q1p_out[i][t], q2p_out[i][t])]
        v_backup(i) ==
            [t \in 1..N |->
                FSub(min_policy_qs(i)[t], EntropyTerm(log_ent_coef, log_probs[t]))]
        value_losses ==
            [i \in 1..Len(values) |->
                MaskedHalfMse(loss_masks, values[i], v_backup(i))]
    IN  FMean(value_losses)

\* The test with its isnan half left out.
ValueLossRaisesInfOnly(value_loss) == isinf(value_loss)

\* The test of lines 272-273: UnityTrainerException("Inf found").
ValueLossRaises(value_loss) == isinf(value_loss) \/ isnan(value_loss)

sac_policy_loss(log_probs, q1p_outs, loss_masks, log_ent_coef) ==
    LET N == Len(loss_masks)
        mean_q1 == [t \in 1..N |->
                       FMean([i \in 1..Len(q1p_outs) |-> q1p_outs[i][t]])]
        batch_policy_loss ==
            [t \in 1..N |->
                FMean([d \in 1..Len(log_probs[t]) |->
                          FSub(FMul(Exp(log_ent_coef), log_probs[t][d]),
                               mean_q1[t])])]
    IN  FMean([t \in 1..N |-> FMul(loss_masks[t], batch_policy_loss[t])])

sac_entropy_loss(log_probs, loss_masks, log_ent_coef) ==
    LET N == Len(loss_masks)
        target_current_diff ==
            [t \in 1..N |->
                FSum([d \in 1..Len(log_probs[t]) |->
                         FAdd(log_probs[t][d],
                              target_entropy(Len(log_probs[t])))])]
    IN  FNeg(FMean([t \in 1..N |->
                       FMul(FMul(log_ent_coef, loss_masks[t]),
                            target_current_diff[t])]))

\* ------------------------------------------------------- soft_update
\* A network's parameters are a sequence, one entry per parameter tensor.
\* zip(source.parameters(), target.parameters()) pairs them up to the
\* shorter length; the target parameters beyond it are not touched.
Zipped(source, target) ==
    1..(IF Len(source) < Len(target) THEN Len(source) ELSE Len(target))

\* soft_update that copies the source whatever tau is.
soft_update_hard(source, target, tau) ==
    [k \in 1..Len(target) |->
        IF k \in Zipped(source, target) THEN source[k] ELSE target[k]]

\* soft_update with the two weights exchanged.
soft_update_swapped(source, target, tau) ==
    [k \in 1..Len(target) |->
        IF k \in Zipped(source, target)
        THEN FAdd(Scale(target[k], tau, TauDen),
                  Scale(source[k], TauDen - tau, TauDen))
        ELSE target[k]]

\* The target's parameters after soft_update(source, target, tau): each
\* becomes target_param * (1.0 - tau) + source_param * tau.
soft_update(source, target, tau) ==
    [k \in 1..Len(target) |->
        IF k \in Zipped(source, target)
        THEN FAdd(Scale(target[k], TauDen - tau, TauDen),
                  Scale(source[k], tau, TauDen))
        ELSE target[k]]

\* --------------------------------------------------- optimizer state
\* Parameter groups: the policy's network body and distribution, the two
\* Q-networks of value_network, the policy's critic, the target network
\* and _log_ent_coef.
Groups == {"policy", "q1", "q2", "critic", "target", "log_ent_coef"}

\* The parameters each optimizer was built over (lines 142-158).
Owned(opt) ==
    CASE opt = "policy" -> {"policy"}
      [] opt = "value" -> {"q1", "q2", "critic"}
      [] opt = "entropy" -> {"log_ent_coef"}

\* The losses backward() walks for each backward call of update, and the
\* parameter groups the autograd graph of each reaches.  policy_loss reads
\* log_probs (policy), q1p_out at the sampled actions (q1 and, through the
\* actions, policy) and exp(_log_ent_coef), none of them detached.  The
\* backups of the Q and value losses are built under no_grad.
LossTerms(root) ==
    CASE root = "policy_loss" -> {"policy_loss"}
      [] root = "total_value_loss" -> {"q1_loss", "q2_loss", "value_loss"}
      [] root = "entropy_loss" -> {"entropy_loss"}

GradPath(term) ==
    CASE term = "policy_loss" -> {"policy", "q1", "log_ent_coef"}
      [] term = "q1_loss" -> {"q1"}
      [] term = "q2_loss" -> {"q2"}
      [] term = "value_loss" -> {"critic"}
      [] term = "entropy_loss" -> {"log_ent_coef"}

\* zero_grad that clears nothing.
zero_grad_skipped(opt, g) == g

\* A gradient buffer is the set of <<loss term, call>> contributions summed
\* into it since it was last cleared.
zero_grad(opt, g) == [p \in Groups |-> IF p \in Owned(opt) THEN {} ELSE g[p]]

backward(root, g, call) ==
    [p \in Groups |->
        g[p] \cup {<<term, call>> : term \in {x \in LossTerms(root) : p \in GradPath(x)}}]

\* optimizer.step(): every owned parameter that holds a gradient moves to
\* the value Adam gives it, new[p]; the others keep theirs.
step(opt, prm, g, new) ==
    [p \in Groups |-> IF p \in Owned(opt) /\ g[p] # {} THEN new[p] ELSE prm[p]]

\* __init__, line 124: the target starts as a hard copy of the critic.
construct_target(critic, fresh) == soft_update(critic, fresh, TauDen)

\* ---------------------------------------------------------- update()
\* Values a one-step batch and the networks' outputs are drawn from.
Huge == FMax
RewardVals == {0, 1}
DoneVals == {0, 1}
MaskVals == {0, 1}
LogProbVals == {0 - 1, 1}
ValueVals == {0, Huge}
QVals == {0, 1}
TargetVals == {0, Huge}
CriticVals == {0, 4}
LogEntVals == {0, 1}
NormVals == {0, 1}

\* The state of update(): pc is its position, calls the number of calls
\* begun, cfg the hyperparameters, params and grads the parameter groups
\* and their gradient buffers, norm the normalization statistics of each
\* network body, loc the local tensors and losses, events the optimizer and
\* soft_update events of the current call, hist the parameters remembered
\* at the start of the call and after the value step, ret what the last
\* call returned or raised.
VARIABLES pc, calls, cfg, params, grads, norm, loc, events, hist, ret

\* The state of the functions run on their own: su for soft_update, ls for
\* the four losses, cq for _condense_q_streams.
VARIABLES su, ls, cq

uvars == <<pc, calls, cfg, params, grads, norm, loc, events, hist, ret>>

aux == <<su, ls, cq>>

Idle == [phase |-> "unused"]

\* A local tensor that is not bound (yet, or any more).
Unbound == << >>

NoLocals ==
    [rewards |-> Unbound, dones |-> Unbound, masks |-> Unbound,
     log_probs |-> Unbound, sampled_values |-> Unbound,
     q1p_out |-> Unbound, q2p_out |-> Unbound,
     q1_stream |-> Unbound, q2_stream |-> Unbound,
     target_values |-> Unbound,
     q1_loss |-> 0, q2_loss |-> 0, value_loss |-> 0,
     policy_loss |-> 0, entropy_loss |-> 0]

NoReturn == [kind |-> "none", stats |-> << >>]

\* update_stats without the abs() around the policy loss.
update_stats_signed(l, prm) ==
    ("Losses/Policy Loss" :> l.policy_loss) @@
    ("Losses/Value Loss" :> l.value_loss) @@
    ("Losses/Q1 Loss" :> l.q1_loss) @@
    ("Losses/Q2 Loss" :> l.q2_loss) @@
    ("Policy/Entropy Coeff" :> Exp(prm.log_ent_coef))

\* update_stats, lines 465-474.
update_stats(l, prm) ==
    ("Losses/Policy Loss" :> FAbs(l.policy_loss)) @@
    ("Losses/Value Loss" :> l.value_loss) @@
    ("Losses/Q1 Loss" :> l.q1_loss) @@
    ("Losses/Q2 Loss" :> l.q2_loss) @@
    ("Policy/Entropy Coeff" :> Exp(prm.log_ent_coef))

UInit ==
    /\ pc = "idle"
    /\ calls = 0
    /\ \E t \in 0..TauDen :
          cfg = [tau |-> t, gammas |-> <<GammaDen>>, use_dones_in_backup |-> <<1>>]
    /\ \E c \in CriticVals, fresh \in CriticVals :
          /\ params = [policy |-> 0, q1 |-> 0, q2 |-> 0, critic |-> c,
                       target |-> construct_target(<<c>>, <<fresh>>)[1],
                       log_ent_coef |-> 0]
          /\ hist = [critic |-> c,
                     target |-> construct_target(<<c>>, <<fresh>>)[1],
                     criticAfterValueStep |-> c]
    /\ grads = [p \in Groups |-> {}]
    /\ norm = [policy |-> 1, q1 |-> 0, q2 |-> 0, target |-> 0]
    /\ loc = NoLocals
    /\ events = << >>
    /\ ret = NoReturn
    /\ su = Idle /\ ls = Idle /\ cq = Idle

\* The trainer updates the policy's running normalization between updates.
UpdateNormalization ==
    /\ pc = "idle"
    /\ calls < MaxCalls
    /\ \E n \in NormVals \ {norm.policy} : norm' = [norm EXCEPT !.policy = n]
    /\ UNCHANGED <<aux, pc, calls, cfg, params, grads, loc, events, hist, ret>>

\* Lines 368-396: the rewards, observations and actions of the batch are read.
Gather ==
    /\ pc = "idle"
    /\ calls < MaxCalls
    /\ calls' = calls + 1
    /\ \E r \in RewardVals : loc' = [NoLocals EXCEPT !.rewards = << <<r>> >>]
    /\ events' = << >>
    /\ ret' = NoReturn
    /\ hist' = [critic |-> params.critic, target |-> params.target,
                criticAfterValueStep |-> params.critic]
    /\ pc' = "copy_q1"
    /\ UNCHANGED <<aux, cfg, params, grads, norm>>

\* copy_normalization that copies nothing.
CopyNormalizationSkipped(at, net, next) ==
    /\ pc = at
    /\ pc' = next
    /\ UNCHANGED <<aux, calls, cfg, params, grads, norm, loc, events, hist, ret>>

\* Lines 399-407: copy_normalization into q1, q2 and the target body.
CopyNormalization(at, net, next) ==
    /\ pc = at
    /\ norm' = [norm EXCEPT ![net] = norm.policy]
    /\ pc' = next
    /\ UNCHANGED <<aux, calls, cfg, params, grads, loc, events, hist, ret>>

CopyNormQ1 == CopyNormalization("copy_q1", "q1", "copy_q2")
CopyNormQ2 == CopyNormalization("copy_q2", "q2", "copy_target")
CopyNormTarget == CopyNormalization("copy_target", "target", "sample_actions")

\* Lines 408-421: policy.sample_actions.
SampleActions ==
    /\ pc = "sample_actions"
    /\ \E lp \in LogProbVals, v \in ValueVals :
          loc' = [loc EXCEPT !.log_probs = << <<lp>> >>,
                             !.sampled_values = << <<v>> >>]
    /\ pc' = "value_network"
    /\ UNCHANGED <<aux, calls, cfg, params, grads, norm, events, hist, ret>>

\* Lines 422-426: the twin Q-networks at the sampled and at the batch actions.
ValueNetworkForward ==
    /\ pc = "value_network"
    /\ \E a \in QVals, b \in QVals, c \in QVals, d \in QVals :
          loc' = [loc EXCEPT !.q1p_out = << <<a>> >>, !.q2p_out = << <<b>> >>,
                             !.q1_stream = << <<c>> >>, !.q2_stream = << <<d>> >>]
    /\ pc' = "target_network"
    /\ UNCHANGED <<aux, calls, cfg, params, grads, norm, events, hist, ret>>

\* Lines 434-438: the target network at the next observations; the masks
\* and the done flags of the batch are read.
TargetNetworkForward ==
    /\ pc = "target_network"
    /\ \E v \in TargetVals, m \in MaskVals, d \in DoneVals :
          loc' = [loc EXCEPT !.target_values = << <<v>> >>, !.masks = <<m>>,
                             !.dones = <<d>>]
    /\ pc' = "sac_q_loss"
    /\ UNCHANGED <<aux, calls, cfg, params, grads, norm, events, hist, ret>>

\* Lines 440-442.
QLoss ==
    /\ pc = "sac_q_loss"
    /\ LET q == sac_q_loss(loc.q1_stream, loc.q2_stream, loc.target_values,
                           loc.dones, loc.rewards, loc.masks,
                           cfg.gammas, cfg.use_dones_in_backup)
       IN  loc' = [loc EXCEPT !.q1_loss = q[1], !.q2_loss = q[2],
                              !.q1_stream = Unbound, !.q2_stream = Unbound,
                              !.target_values = Unbound, !.dones = Unbound,
                              !.rewards = Unbound]
    /\ pc' = "sac_value_loss"
    /\ UNCHANGED <<aux, calls, cfg, params, grads, norm, events, hist, ret>>

\* sac_value_loss raising when any loss of the value optimizer, the Q losses
\* included, is non-finite.
ValueLossChecksAll ==
    /\ pc = "sac_value_loss"
    /\ LET v == sac_value_loss(loc.log_probs, loc.sampled_values, loc.q1p_out,
                               loc.q2p_out, loc.masks, params.log_ent_coef)
       IN  /\ loc' = [loc EXCEPT !.value_loss = v, !.sampled_values = Unbound,
                                 !.q2p_out = Unbound]
           /\ IF ValueLossRaises(FAdd(FAdd(loc.q1_loss, loc.q2_loss), v))
              THEN /\ pc' = "idle"
                   /\ ret' = [kind |-> "UnityTrainerException", stats |-> << >>]
              ELSE /\ pc' = "sac_policy_loss"
                   /\ UNCHANGED ret
    /\ UNCHANGED <<aux, calls, cfg, params, grads, norm, events, hist>>

\* Lines 443-445, with the raise of lines 272-273 leaving update.
ValueLoss ==
    /\ pc = "sac_value_loss"
    /\ LET v == sac_value_loss(loc.log_probs, loc.sampled_values, loc.q1p_out,
                               loc.q2p_out, loc.masks, params.log_ent_coef)
       IN  /\ loc' = [loc EXCEPT !.value_loss = v, !.sampled_values = Unbound,
                                 !.q2p_out = Unbound]
           /\ IF ValueLossRaises(v)
              THEN /\ pc' = "idle"
                   /\ ret' = [kind |-> "UnityTrainerException", stats |-> << >>]
              ELSE /\ pc' = "sac_policy_loss"
                   /\ UNCHANGED ret
    /\ UNCHANGED <<aux, calls, cfg, params, grads, norm, events, hist>>

\* Line 446.
PolicyLoss ==
    /\ pc = "sac_policy_loss"
    /\ loc' = [loc EXCEPT !.policy_loss =
                              sac_policy_loss(loc.log_probs, loc.q1p_out,
                                              loc.masks, params.log_ent_coef),
                          !.q1p_out = Unbound]
    /\ pc' = "sac_entropy_loss"
    /\ UNCHANGED <<aux, calls, cfg, params, grads, norm, events, hist, ret>>

\* Line 447.
EntropyLoss ==
    /\ pc = "sac_entropy_loss"
    /\ loc' = [loc EXCEPT !.entropy_loss =
                              sac_entropy_loss(loc.log_probs, loc.masks,
                                               params.log_ent_coef),
                          !.log_probs = Unbound, !.masks = Unbound]
    /\ pc' = "policy_zero_grad"
    /\ UNCHANGED <<aux, calls, cfg, params, grads, norm, events, hist, ret>>

\* The value optimizer's block moved in front of the policy optimizer's.
NextLabelValueFirst(l) ==
    CASE l = "policy_zero_grad" -> "value_backward"
      [] l = "policy_backward" -> "policy_step"
      [] l = "policy_step" -> "entropy_zero_grad"
      [] l = "value_zero_grad" -> "policy_backward"
      [] l = "value_backward" -> "value_step"
      [] l = "value_step" -> "value_zero_grad"
      [] l = "entropy_zero_grad" -> "entropy_backward"
      [] l = "entropy_backward" -> "entropy_step"
      [] l = "entropy_step" -> "soft_update"
      [] l = "soft_update" -> "return"

\* The order of lines 451-464: each label's successor.
NextLabel(l) ==
    CASE l = "policy_zero_grad" -> "policy_backward"
      [] l = "policy_backward" -> "policy_step"
      [] l = "policy_step" -> "value_zero_grad"
      [] l = "value_zero_grad" -> "value_backward"
      [] l = "value_backward" -> "value_step"
      [] l = "value_step" -> "entropy_zero_grad"
      [] l = "entropy_zero_grad" -> "entropy_backward"
      [] l = "entropy_backward" -> "entropy_step"
      [] l = "entropy_step" -> "soft_update"
      [] l = "soft_update" -> "return"

\* optimizer.zero_grad(), lines 451, 455, 459.
ZeroGrad(opt) ==
    /\ pc = opt \o "_zero_grad"
    /\ grads' = zero_grad(opt, grads)
    /\ events' = Append(events, <<opt, "zero_grad">>)
    /\ pc' = NextLabel(pc)
    /\ UNCHANGED <<aux, calls, cfg, params, norm, loc, hist, ret>>

\* loss.backward(), lines 452, 456, 460.
Backward(opt, root) ==
    /\ pc = opt \o "_backward"
    /\ grads' = backward(root, grads, calls)
    /\ events' = Append(events, <<root, "backward">>)
    /\ pc' = NextLabel(pc)
    /\ UNCHANGED <<aux, calls, cfg, params, norm, loc, hist, ret>>

\* optimizer.step(), lines 453, 457, 461.
Step(opt) ==
    /\ pc = opt \o "_step"
    /\ \E c \in CriticVals, e \in LogEntVals :
          params' = step(opt, params, grads,
                         [policy |-> params.policy + 1, q1 |-> params.q1 + 1,
                          q2 |-> params.q2 + 1, critic |-> c,
                          target |-> params.target, log_ent_coef |-> e])
    /\ hist' = IF opt = "value"
               THEN [hist EXCEPT !.criticAfterValueStep = params'.critic]
               ELSE hist
    /\ events' = Append(events, <<opt, "step">>)
    /\ pc' = NextLabel(pc)
    /\ UNCHANGED <<aux, calls, cfg, grads, norm, loc, ret>>

PolicyZeroGrad == ZeroGrad("policy")
PolicyBackward == Backward("policy", "policy_loss")
PolicyStep == Step("policy")
ValueZeroGrad == ZeroGrad("value")
ValueBackward == Backward("value", "total_value_loss")
ValueStep == Step("value")
EntropyZeroGrad == ZeroGrad("entropy")
EntropyBackward == Backward("entropy", "entropy_loss")
EntropyStep == Step("entropy")

\* Line 464: soft_update(policy.actor_critic.critic, target_network, tau).
SoftUpdate ==
    /\ pc = "soft_update"
    /\ params' = [params EXCEPT !.target =
                       soft_update(<<params.critic>>, <<params.target>>, cfg.tau)[1]]
    /\ events' = Append(events, <<"target_network", "soft_update">>)
    /\ pc' = NextLabel(pc)
    /\ UNCHANGED <<aux, calls, cfg, grads, norm, loc, hist, ret>>

\* Lines 465-476.
Return ==
    /\ pc = "return"
    /\ ret' = [kind |-> "stats", stats |-> update_stats(loc, params)]
    /\ pc' = "idle"
    /\ UNCHANGED <<aux, calls, cfg, params, grads, norm, loc, events, hist>>

UNext ==
    \/ UpdateNormalization
    \/ Gather
    \/ CopyNormQ1
    \/ CopyNormQ2
    \/ CopyNormTarget
    \/ SampleActions
    \/ ValueNetworkForward
    \/ TargetNetworkForward
    \/ QLoss
    \/ ValueLoss
    \/ PolicyLoss
    \/ EntropyLoss
    \/ PolicyZeroGrad
    \/ PolicyBackward
    \/ PolicyStep
    \/ ValueZeroGrad
    \/ ValueBackward
    \/ ValueStep
    \/ EntropyZeroGrad
    \/ EntropyBackward
    \/ EntropyStep
    \/ SoftUpdate
    \/ Return

vars == <<uvars, aux>>

Init == UInit

Next == UNext

Spec == Init /\ [][Next]_vars

\* ------------------------------------------------ claims on update()
Raised == pc = "idle" /\ ret.kind = "UnityTrainerException"
Returned == pc = "idle" /\ ret.kind = "stats"

\* The positions of update after sac_value_loss has returned.
AfterValueLoss ==
    {"sac_policy_loss", "sac_entropy_loss", "policy_zero_grad", "policy_backward",
     "policy_step", "value_zero_grad", "value_backward", "value_step",
     "entropy_zero_grad", "entropy_backward", "entropy_step", "soft_update",
     "return"}

\* C1: a non-finite value loss makes update raise, and when it has raised no
\* optimizer has cleared, back-propagated or stepped in that call,
\* soft_update has not run, and the target and critic parameters are those
\* of the start of the call; update goes past sac_value_loss, and returns
\* statistics, only with a finite value loss.
C1_RaiseLeavesStateUntouched ==
    /\ Raised =>
          /\ isinf(loc.value_loss) \/ isnan(loc.value_loss)
          /\ events = << >>
          /\ params.target = hist.target
          /\ params.critic = hist.critic
    /\ (pc \in AfterValueLoss \/ Returned) =>
          loc.value_loss >= 0 - FMax /\ loc.value_loss <= FMax

\* An update raised on a NaN value loss after an earlier update had stepped.
C1_Witness ==
    /\ Raised
    /\ calls = 2
    /\ loc.value_loss = NaN
    /\ grads.critic # {}

\* The Q losses, the only losses computed from target_values, are non-finite
\* in the call that just ended.
QLossNonFinite ==
    /\ pc = "idle"
    /\ ret.kind # "none"
    /\ \/ isinf(loc.q1_loss) \/ isnan(loc.q1_loss)
       \/ isinf(loc.q2_loss) \/ isnan(loc.q2_loss)

\* C2 as stated: a target value large enough to make a loss computed from
\* it non-finite makes update raise and leaves the critic unchanged.
C2_HugeTargetRaises ==
    QLossNonFinite => (ret.kind = "UnityTrainerException" /\ params.critic = hist.critic)

\* C2 amended: target_values reach the Q losses only.  With non-finite Q
\* losses update raises exactly when the value loss is itself non-finite,
\* and then the critic is unchanged; otherwise it runs to the end, the value
\* optimizer steps, and the statistics carry the non-finite Q losses.
C2_HugeTargetOnlyReachesQLoss ==
    QLossNonFinite =>
       /\ (ret.kind = "UnityTrainerException") =
             (isinf(loc.value_loss) \/ isnan(loc.value_loss))
       /\ ret.kind = "UnityTrainerException" => params.critic = hist.critic
       /\ ret.kind = "stats" =>
             /\ \E k \in 1..Len(events) : events[k] = <<"value", "step">>
             /\ params.critic = hist.criticAfterValueStep
             /\ ret.stats["Losses/Q1 Loss"] = loc.q1_loss
             /\ ret.stats["Losses/Q2 Loss"] = loc.q2_loss

\* An update with an infinite Q1 loss returned statistics and moved the critic.
C2_Witness ==
    /\ QLossNonFinite
    /\ ret.kind = "stats"
    /\ loc.q1_loss = PInf
    /\ params.critic # hist.critic

\* The events of one update, in the order of the claim.
ExpectedEvents ==
    << <<"policy", "zero_grad">>, <<"policy_loss", "backward">>, <<"policy", "step">>,
       <<"value", "zero_grad">>, <<"total_value_loss", "backward">>, <<"value", "step">>,
       <<"entropy", "zero_grad">>, <<"entropy_loss", "backward">>, <<"entropy", "step">>,
       <<"target_network", "soft_update">> >>

\* C3: the events of a call are always a prefix of: policy clear, policy-loss
\* backward, policy step, value clear, backward of Q1 + Q2 + value loss,
\* value step, entropy clear, entropy-loss backward, entropy step (then
\* soft_update); a call that returns has made all of them, each once.
C3_OptimizerOrder ==
    /\ Len(events) <= Len(ExpectedEvents)
    /\ \A k \in 1..Len(events) : events[k] = ExpectedEvents[k]
    /\ Returned => events = ExpectedEvents
    /\ LossTerms("total_value_loss") = {"q1_loss", "q2_loss", "value_loss"}

\* A second update has returned.
C3_Witness == Returned /\ calls = 2 /\ Len(events) = 10

\* C4: from the start of a call until its soft_update the target holds its
\* value of the start of the call, whatever the optimizers do, and so it does
\* after a raise; once soft_update has run it holds
\* (1 - tau) * old_target + tau * critic, the critic being the one the value
\* optimizer's step of the same call left, and soft_update is the last
\* event of the call, after the three steps.
C4_TargetOnlyBySoftUpdate ==
    IF pc = "return" \/ Returned
    THEN /\ params.target =
               ((TauDen - cfg.tau) * hist.target) \div TauDen
               + (cfg.tau * hist.criticAfterValueStep) \div TauDen
         /\ Len(events) = 10
         /\ events[10] = <<"target_network", "soft_update">>
         /\ {<<"policy", "step">>, <<"value", "step">>, <<"entropy", "step">>}
               \subseteq {events[k] : k \in 1..9}
         /\ \A k \in 1..9 : events[k][2] # "soft_update"
    ELSE params.target = hist.target

\* An update returned with the target strictly between its old value and
\* the critic the value step left.
C4_Witness ==
    /\ Returned
    /\ params.target # hist.target
    /\ params.target # hist.criticAfterValueStep
    /\ hist.criticAfterValueStep # hist.critic

StatKeys ==
    {"Losses/Policy Loss", "Losses/Value Loss", "Losses/Q1 Loss",
     "Losses/Q2 Loss", "Policy/Entropy Coeff"}

\* C7: a call that returns returns exactly the five keys; "Losses/Policy
\* Loss" is the magnitude of the policy loss of the call and is not
\* negative; the value, Q1 and Q2 entries are the losses of the call.
C7_ReturnedStats ==
    Returned =>
       /\ DOMAIN ret.stats = StatKeys
       /\ ret.stats["Losses/Policy Loss"] \in {loc.policy_loss, 0 - loc.policy_loss}
       /\ ret.stats["Losses/Policy Loss"] >= 0
       /\ ret.stats["Losses/Value Loss"] = loc.value_loss
       /\ ret.stats["Losses/Q1 Loss"] = loc.q1_loss
       /\ ret.stats["Losses/Q2 Loss"] = loc.q2_loss

\* An update with a negative policy loss returned.
C7_Witness == Returned /\ loc.policy_loss < 0

AtForwardPass == {"sample_actions", "value_network", "target_network"}

\* C11: when update is about to call sample_actions, the twin Q-networks or
\* the target network, the two Q-sub-networks and the target network body
\* hold the normalization statistics of the policy's network body.
C11_NormalizationCopiedBeforeForward ==
    pc \in AtForwardPass =>
        /\ norm.q1 = norm.policy
        /\ norm.q2 = norm.policy
        /\ norm.target = norm.policy

\* The networks are built with statistics 0 and the policy holds 1: in the
\* first update the target network is about to run with the three copies
\* made.
C11_Witness ==
    /\ pc = "target_network"
    /\ calls = 1
    /\ norm.policy = 1
    /\ norm.q1 = 1 /\ norm.q2 = 1 /\ norm.target = 1

\* ------------------------------------------- soft_update on its own
\* update() at rest, for the specifications of single functions.
UOff ==
    /\ pc = "off"
    /\ calls = 0
    /\ cfg = [tau |-> 0, gammas |-> <<GammaDen>>, use_dones_in_backup |-> <<1>>]
    /\ params = [policy |-> 0, q1 |-> 0, q2 |-> 0, critic |-> 0, target |-> 0,
                 log_ent_coef |-> 0]
    /\ grads = [p \in Groups |-> {}]
    /\ norm = [policy |-> 1, q1 |-> 0, q2 |-> 0, target |-> 0]
    /\ loc = NoLocals
    /\ events = << >>
    /\ hist = [critic |-> 0, target |-> 0, criticAfterValueStep |-> 0]
    /\ ret = NoReturn

\* Values of a parameter tensor.
SoftVals == {0, 1, 4}

\* Two networks of two parameter tensors each, and a tau.
SoftInit ==
    /\ UOff
    /\ ls = Idle /\ cq = Idle
    /\ \E a \in SoftVals, b \in SoftVals, c \in SoftVals, d \in SoftVals,
          t \in 0..TauDen :
          su = [phase |-> "start", source |-> <<a, b>>, target |-> <<c, d>>,
                tau |-> t, source0 |-> <<a, b>>, target0 |-> <<c, d>>]

\* soft_update(source, target, tau), lines 194-198.
ApplySoftUpdate ==
    /\ su.phase = "start"
    /\ su' = [su EXCEPT !.phase = "updated",
                        !.target = soft_update(su.source, su.target, su.tau)]
    /\ UNCHANGED <<uvars, ls, cq>>

\* The construction of the target network, lines 112-124.
ConstructTarget ==
    /\ su.phase = "start"
    /\ su' = [su EXCEPT !.phase = "constructed",
                        !.target = construct_target(su.source, su.target)]
    /\ UNCHANGED <<uvars, ls, cq>>

SoftNext ==
    \/ ApplySoftUpdate
    \/ ConstructTarget

SpecSoft == SoftInit /\ [][SoftNext]_vars

\* C5: soft_update with tau = 1.0 leaves the target equal to the source,
\* with tau = 0.0 leaves the target as it was, and never changes the
\* source; after construction the target equals the critic.
C5_SoftUpdateEnds ==
    /\ su.phase \in {"updated", "constructed"} => su.source = su.source0
    /\ (su.phase = "updated" /\ su.tau = TauDen) => su.target = su.source
    /\ (su.phase = "updated" /\ su.tau = 0) => su.target = su.target0
    /\ su.phase = "constructed" => su.target = su.source

\* soft_update with tau = 1.0 has overwritten a target that differed from
\* the source in both tensors.
C5_Witness ==
    /\ su.phase = "updated"
    /\ su.tau = TauDen
    /\ su.target0[1] # su.source[1]
    /\ su.target0[2] # su.source[2]
    /\ su.target = su.source

\* -------------------------------------------- the losses on their own
\* Values of a tensor entry, and of a log-probability.
LossVals == {0, 8}
LogVals == {0, 0 - 8}

StreamIdx == 1..Len(stream_names)
Steps == 1..MaxLen

\* Tensors keyed by stream and step.
StreamFields ==
    {"rewards", "target_values", "q1_stream", "q2_stream", "values",
     "q1p_out", "q2p_out"}

\* The batch every other one is reached from: zero rewards and dones, no
\* step masked, zero network outputs but a target value of 8, "extrinsic"
\* with gamma 1 and terminal states used, "curiosity" with gamma 1/2 and
\* terminal states not used.
DefaultInputs ==
    [rewards |-> [i \in StreamIdx |-> [t \in Steps |-> 0]],
     target_values |-> [i \in StreamIdx |-> [t \in Steps |-> 8]],
     q1_stream |-> [i \in StreamIdx |-> [t \in Steps |-> 0]],
     q2_stream |-> [i \in StreamIdx |-> [t \in Steps |-> 0]],
     values |-> [i \in StreamIdx |-> [t \in Steps |-> 0]],
     q1p_out |-> [i \in StreamIdx |-> [t \in Steps |-> 0]],
     q2p_out |-> [i \in StreamIdx |-> [t \in Steps |-> 0]],
     dones |-> [t \in Steps |-> 0],
     masks |-> [t \in Steps |-> 1],
     log_probs |-> [t \in Steps |-> <<0>>],
     log_ent_coef |-> 0,
     gammas |-> [i \in StreamIdx |-> IF i = 1 THEN GammaDen ELSE 1],
     use_dones_in_backup |-> [i \in StreamIdx |-> IF i = 1 THEN 1 ELSE 0]]

LossFns == {"sac_q_loss", "sac_value_loss", "sac_policy_loss", "sac_entropy_loss"}

\* What a loss function returns on inputs x, as a tuple.
Eval(fn, x) ==
    CASE fn = "sac_q_loss" ->
             sac_q_loss(x.q1_stream, x.q2_stream, x.target_values, x.dones,
                        x.rewards, x.masks, x.gammas, x.use_dones_in_backup)
      [] fn = "sac_value_loss" ->
             <<sac_value_loss(x.log_probs, x.values, x.q1p_out, x.q2p_out,
                              x.masks, x.log_ent_coef)>>
      [] fn = "sac_policy_loss" ->
             <<sac_policy_loss(x.log_probs, x.q1p_out, x.masks, x.log_ent_coef)>>
      [] fn = "sac_entropy_loss" ->
             <<sac_entropy_loss(x.log_probs, x.masks, x.log_ent_coef)>>

\* The q_backup tensors sac_q_loss builds on inputs x, one per stream.
Backups(fn, x) ==
    IF fn = "sac_q_loss"
    THEN [i \in StreamIdx |->
             q_backup(i, x.target_values, x.dones, x.rewards, x.gammas,
                      x.use_dones_in_backup)]
    ELSE << >>

\* The inputs of each loss function that are keyed by stream and step.
FnStreamFields(fn) ==
    CASE fn = "sac_q_loss" -> {"rewards", "target_values", "q1_stream", "q2_stream"}
      [] fn = "sac_value_loss" -> {"values", "q1p_out", "q2p_out"}
      [] fn = "sac_policy_loss" -> {"q1p_out"}
      [] fn = "sac_entropy_loss" -> {}

LossInit ==
    /\ UOff
    /\ su = Idle /\ cq = Idle
    /\ ls = [phase |-> "build", in |-> DefaultInputs, edits |-> 0, fn |-> "none",
             out |-> << >>, prev |-> << >>, backup |-> << >>]

\* The caller's batch and the configuration differ from the default in one
\* more entry.
Edited(x) ==
    /\ ls.phase = "build"
    /\ ls.edits < MaxEdits
    /\ x # ls.in
    /\ ls' = [ls EXCEPT !.in = x, !.edits = @ + 1]
    /\ UNCHANGED <<uvars, su, cq>>

EditStreamTensor ==
    \E f \in StreamFields, i \in StreamIdx, t \in Steps, v \in LossVals :
        Edited([ls.in EXCEPT ![f][i][t] = v])

EditDone == \E t \in Steps, v \in {0, 1} : Edited([ls.in EXCEPT !.dones[t] = v])

EditMask == \E t \in Steps, v \in {0, 1} : Edited([ls.in EXCEPT !.masks[t] = v])

EditLogProb ==
    \E t \in Steps, v \in LogVals : Edited([ls.in EXCEPT !.log_probs[t] = <<v>>])

EditEntCoef == \E v \in {0, 1} : Edited([ls.in EXCEPT !.log_ent_coef = v])

EditGamma ==
    \E i \in StreamIdx, v \in 1..GammaDen : Edited([ls.in EXCEPT !.gammas[i] = v])

EditUseDones ==
    \E i \in StreamIdx, v \in {0, 1} :
        Edited([ls.in EXCEPT !.use_dones_in_backup[i] = v])

\* One of the four loss functions is called on the inputs.
ApplyLoss ==
    /\ ls.phase = "build"
    /\ \E fn \in LossFns :
          ls' = [ls EXCEPT !.phase = "applied", !.fn = fn,
                           !.out = Eval(fn, ls.in), !.prev = Eval(fn, ls.in),
                           !.backup = Backups(fn, ls.in)]
    /\ UNCHANGED <<uvars, su, cq>>

\* The function is called again after one of its inputs has changed at a
\* step whose loss_masks entry is 0.
Perturbed(x) ==
    /\ ls.phase = "applied"
    /\ x # ls.in
    /\ ls' = [ls EXCEPT !.phase = "perturbed", !.in = x, !.prev = ls.out,
                        !.out = Eval(ls.fn, x), !.backup = Backups(ls.fn, x)]
    /\ UNCHANGED <<uvars, su, cq>>

PerturbMaskedStreamTensor ==
    /\ ls.phase = "applied"
    /\ \E t \in {k \in Steps : ls.in.masks[k] = 0} :
          \E f \in FnStreamFields(ls.fn), i \in StreamIdx, v \in LossVals :
              Perturbed([ls.in EXCEPT ![f][i][t] = v])

PerturbMaskedLogProb ==
    /\ ls.phase = "applied"
    /\ ls.fn \in {"sac_value_loss", "sac_policy_loss", "sac_entropy_loss"}
    /\ \E t \in {k \in Steps : ls.in.masks[k] = 0}, v \in LogVals :
          Perturbed([ls.in EXCEPT !.log_probs[t] = <<v>>])

LossNext ==
    \/ EditStreamTensor
    \/ EditDone
    \/ EditMask
    \/ EditLogProb
    \/ EditEntCoef
    \/ EditGamma
    \/ EditUseDones
    \/ ApplyLoss
    \/ PerturbMaskedStreamTensor
    \/ PerturbMaskedLogProb

SpecLoss == LossInit /\ [][LossNext]_vars

\* C6: a step whose loss_masks entry is 0 contributes nothing to any of the
\* four losses: changing a reward, Q-value, value estimate or
\* log-probability at such a step leaves the returned loss unchanged.
C6_MaskedStepContributesNothing ==
    ls.phase = "perturbed" => ls.out = ls.prev

\* C9: for each stream i and step t, q_backup is the reward alone when the
\* stream uses terminal states and the step is terminal, and otherwise the
\* reward plus the stream's own gamma times its target value.
C9_BackupPerStream ==
    (ls.phase \in {"applied", "perturbed"} /\ ls.fn = "sac_q_loss") =>
        \A i \in StreamIdx, t \in Steps :
            ls.backup[i][t] =
                IF ls.in.use_dones_in_backup[i] = 1 /\ ls.in.dones[t] = 1
                THEN ls.in.rewards[i][t]
                ELSE ls.in.rewards[i][t]
                     + (ls.in.gammas[i] * ls.in.target_values[i][t]) \div GammaDen

\* At a terminal step with a reward of 8, the stream that uses terminal
\* states backs up the reward alone and the one that does not adds half its
\* target value.
C9_Witness ==
    /\ ls.fn = "sac_q_loss"
    /\ \E t \in Steps :
          /\ ls.in.dones[t] = 1
          /\ ls.in.use_dones_in_backup = <<1, 0>>
          /\ ls.in.gammas = <<GammaDen, 1>>
          /\ ls.in.rewards[1][t] = 8 /\ ls.backup[1][t] = 8
          /\ ls.in.target_values[2][t] = 8
          /\ ls.backup[2][t] = ls.in.rewards[2][t] + 8 \div GammaDen

\* ------------------------------------ _condense_q_streams on its own
\* The number of Q outputs that precede branch b in a flat row.
RECURSIVE BranchOffset(_, _)
BranchOffset(act_size, b) ==
    IF b = 1 THEN 0 ELSE BranchOffset(act_size, b - 1) + act_size[b - 1]

\* break_into_branches(item, act_size): the tensor of one row per sample is
\* cut, along the action axis, into one tensor per branch.
break_into_branches(item, act_size) ==
    [b \in 1..Len(act_size) |->
        [n \in 1..Len(item) |->
            [a \in 1..act_size[b] |-> item[n][BranchOffset(act_size, b) + a]]]]

\* actions_to_onehot(discrete_actions, act_size): per branch, per sample, a
\* row holding 1 at the chosen action (actions count from 0) and 0 elsewhere.
actions_to_onehot(discrete_actions, act_size) ==
    [b \in 1..Len(act_size) |->
        [n \in 1..Len(discrete_actions) |->
            [a \in 1..act_size[b] |->
                IF discrete_actions[n][b] + 1 = a THEN 1 ELSE 0]]]

\* _condense_q_streams with the branches summed instead of averaged.
condense_q_streams_summed(q_output, discrete_actions, act_size) ==
    LET onehot_actions == actions_to_onehot(discrete_actions, act_size)
    IN  [key \in 1..Len(q_output) |->
            LET branched_q == break_into_branches(q_output[key], act_size)
            IN  [n \in 1..Len(discrete_actions) |->
                    FSum([b \in 1..Len(act_size) |->
                             FSum([a \in 1..act_size[b] |->
                                      FMul(onehot_actions[b][n][a],
                                           branched_q[b][n][a])])])]]

\* _condense_q_streams(q_output, discrete_actions), with self.act_size.
condense_q_streams(q_output, discrete_actions, act_size) ==
    LET onehot_actions == actions_to_onehot(discrete_actions, act_size)
    IN  [key \in 1..Len(q_output) |->
            LET branched_q == break_into_branches(q_output[key], act_size)
            IN  [n \in 1..Len(discrete_actions) |->
                    FMean([b \in 1..Len(act_size) |->
                              FSum([a \in 1..act_size[b] |->
                                       FMul(onehot_actions[b][n][a],
                                            branched_q[b][n][a])])])]]

\* Branch cardinalities, and the values of a Q output.
ActSizes == {<<2>>, <<3>>, <<1, 2>>, <<2, 2>>}
QTableVals == {0, 2}

\* The sequences over vals of the given length.
Rows(vals, len) == [1..len -> vals]

\* The action rows of one sample: one index per branch, below its cardinality.
ActionRows(act_size) ==
    {r \in [1..Len(act_size) -> 0..2] : \A b \in 1..Len(act_size) : r[b] < act_size[b]}

\* One reward stream and two samples.
CondenseInit ==
    /\ UOff
    /\ su = Idle /\ ls = Idle
    /\ \E sz \in ActSizes :
          LET width == BranchOffset(sz, Len(sz)) + sz[Len(sz)]
          IN  \E r1 \in Rows(QTableVals, width), r2 \in Rows(QTableVals, width),
                 a1 \in ActionRows(sz), a2 \in ActionRows(sz) :
                  cq = [phase |-> "start", act_size |-> sz,
                        q_output |-> << <<r1, r2>> >>,
                        discrete_actions |-> <<a1, a2>>, out |-> << >>]

\* _condense_q_streams(q_output, discrete_actions), lines 340-355.
ApplyCondense ==
    /\ cq.phase = "start"
    /\ cq' = [cq EXCEPT !.phase = "condensed",
                        !.out = condense_q_streams(cq.q_output, cq.discrete_actions,
                                                   cq.act_size)]
    /\ UNCHANGED <<uvars, su, ls>>

CondenseNext == ApplyCondense

SpecCondense == CondenseInit /\ [][CondenseNext]_vars

\* The Q-value of stream key, sample n, branch b at the action chosen there.
ChosenQ(key, n, b) ==
    cq.q_output[key][n][BranchOffset(cq.act_size, b) + cq.discrete_actions[n][b] + 1]

\* C8: for every stream and sample the condensed value is the Q-value at
\* the chosen action of each branch, averaged over the branches; with one
\* branch it is the Q-value at the chosen action itself.
C8_CondensedIsChosenQ ==
    cq.phase = "condensed" =>
        \A key \in 1..Len(cq.q_output), n \in 1..Len(cq.discrete_actions) :
            cq.out[key][n] =
                IF Len(cq.act_size) = 1
                THEN ChosenQ(key, n, 1)
                ELSE (ChosenQ(key, n, 1) + ChosenQ(key, n, 2)) \div 2

\* Two branches of which one chosen Q-value is 2 and the other 0 for the
\* first sample, and both are 2 for the second.
C8_Witness ==
    /\ cq.phase = "condensed"
    /\ cq.act_size = <<1, 2>>
    /\ cq.discrete_actions = << <<0, 1>>, <<0, 0>> >>
    /\ cq.q_output[1][1] = <<0, 0, 2>>
    /\ cq.out[1] = <<1, 2>>

====
